---- MODULE Spec2Model ----
(***************************************************************************)
(* Model of test-files/data_processor.py: the class DataProcessor, its     *)
(* constructor, process_data and the two private helpers.                  *)
(*                                                                         *)
(* Python lists are objects with identity, so the model keeps a heap of    *)
(* list objects addressed 1..Len(heap).  Several threads may call          *)
(* process_data on the one shared DataProcessor; each thread owns a frame  *)
(* (raw_data, cleaned_data, the list iterator, item).  A thread runs lines *)
(* 16-20 as one step and each turn of the loop of lines 21-24 as one step; *)
(* other threads run between these steps.                                  *)
(***************************************************************************)
EXTENDS Integers, Sequences, FiniteSets, TLC

\* ---------------------------------------------------------------- bounds
MaxLen == 2       \* longest list a caller builds
MaxObj == 4       \* list objects ever allocated
NThreads == 2     \* threads calling process_data

Threads == 1..NThreads

\* process_data never looks into an item (lines 28-34 take it and hand it
\* back), so items are opaque tokens.  Two kinds are told apart: the data the
\* FIXME of line 14 calls malformed, and the rest.
Malformed == "malformed"
Items == {"wellformed", Malformed}

\* Python's None: the absent raw_data, an unbound local, no object.
None == 0

RECURSIVE ListsUpTo(_)
ListsUpTo(n) ==
    IF n = 0 THEN {<<>>}
    ELSE LET shorter == ListsUpTo(n - 1)
         IN shorter \cup {Append(l, x) : l \in {s \in shorter : Len(s) = n - 1}, x \in Items}

\* The list values a caller passes.
Lists == ListsUpTo(MaxLen)

VARIABLES
    self,          \* the DataProcessor: [settings |-> mapping]
    heap,          \* heap[a] is the content of the list object at address a
    returned,      \* how many times process_data has returned each address
    pc,            \* per thread: the statement it is at
    raw_data,      \* per thread: the argument (None or an address)
    cleaned_data,  \* per thread: the local of line 20 (None or an address)
    it,            \* per thread: index of the list iterator of line 21
    item,          \* per thread: the loop variable
    result,        \* per thread: what the call returned (None or an address)
    argval,        \* per thread: content of the argument when the call began
    retval,        \* per thread: content of the result when the call returned
    trace,         \* per thread: iterator and helper events of the current call
    chained,       \* per thread: the call's argument is the caller's previous result
    prevret        \* per thread: content the previous call returned (when chained)

frame == <<raw_data, cleaned_data, it, item>>
observed == <<argval, retval, trace, chained, prevret>>
vars == <<self, heap, returned, pc, result, frame, observed>>

\* ------------------------------------------------------------ the object

\* __init__, line 8: self.settings = {}
DataProcessor == [settings |-> <<>>]

\* A call's outcome: the value returned, whether it raised, and the receiver
\* after the call (a method has access to self).
Outcome(value, raised, obj) == [ret |-> value, exc |-> raised, self |-> obj]

\* Validation that turns malformed data down.
_validate_item_strict(obj, x) == Outcome(x # Malformed, FALSE, obj)

\* Validation that raises on malformed data.
_validate_item_raising(obj, x) == Outcome(TRUE, x = Malformed, obj)

\* Validation that remembers in the settings what it has seen and lets every
\* item through once.
_validate_item_once(obj, x) ==
    Outcome(x \notin DOMAIN obj.settings, FALSE,
            [settings |-> [k \in DOMAIN obj.settings \cup {x} |-> TRUE]])

\* _validate_item, lines 28-30: return True
_validate_item(obj, x) == Outcome(TRUE, FALSE, obj)

\* Cleaning that notes each item in the settings.
_clean_item_noting(obj, x) ==
    Outcome(x, FALSE, [settings |-> [k \in DOMAIN obj.settings \cup {x} |-> TRUE]])

\* _clean_item, lines 32-34: return item
_clean_item(obj, x) == Outcome(x, FALSE, obj)

\* ------------------------------------------------------ Python primitives

\* A test for None only.
IsNone(h, v) == v = None

\* `not raw_data` of line 16: None and the empty list are falsy.
IsFalsy(h, v) == v = None \/ Len(h[v]) = 0

\* One shared empty list handed out for as long as it is empty.
SharedEmptyList(h) ==
    LET empty == {a \in DOMAIN h : h[a] = <<>>}
    IN IF empty = {} THEN [heap |-> Append(h, <<>>), addr |-> Len(h) + 1]
       ELSE [heap |-> h, addr |-> CHOOSE a \in empty : \A b \in empty : a <= b]

\* A list display `[]` (lines 17 and 20): a new object at the next address.
NewList(h) == [heap |-> Append(h, <<>>), addr |-> Len(h) + 1]

\* Insertion at the front.
ListPrepend(l, x) == <<x>> \o l

\* list.append of line 24.
ListAppend(l, x) == Append(l, x)

\* An iterator that moves on by two.
IterSkip(i) == i + 2

\* The list iterator moves on by one position per item.
IterAdvance(i) == i + 1

\* next() on the list iterator of line 21: the item at the iterator's index,
\* read from the list as it is now, or exhaustion.
ListIterNext(h, a, i) ==
    IF i < Len(h[a])
    THEN [stop |-> FALSE, item |-> h[a][i + 1], it |-> IterAdvance(i)]
    ELSE [stop |-> TRUE, item |-> None, it |-> i]

\* One entry of a call's trace.
Event(op, x, ok) == [op |-> op, item |-> x, ok |-> ok]

\* ---------------------------------------------------------------- states

Init ==
    /\ self = DataProcessor
    /\ heap = <<>>
    /\ returned = [a \in {} |-> 0]
    /\ pc = [t \in Threads |-> "idle"]
    /\ raw_data = [t \in Threads |-> None]
    /\ cleaned_data = [t \in Threads |-> None]
    /\ it = [t \in Threads |-> 0]
    /\ item = [t \in Threads |-> None]
    /\ result = [t \in Threads |-> None]
    /\ argval = [t \in Threads |-> <<>>]
    /\ retval = [t \in Threads |-> <<>>]
    /\ trace = [t \in Threads |-> <<>>]
    /\ chained = [t \in Threads |-> FALSE]
    /\ prevret = [t \in Threads |-> <<>>]

\* Threads inside process_data that have not yet built their result list.
Unallocated == {t \in Threads : pc[t] = "test"}

\* The lists that only the argument and the result of thread t's previous
\* call refer to, once a new call with argument arg replaces the two.
Dropped(t, arg) ==
    {raw_data[t], result[t]} \ ({None, arg} \cup {raw_data[u] : u \in Threads \ {t}}
                                          \cup {result[u] : u \in Threads \ {t}})

\* The heap h once the lists at the addresses `dead` are freed: their content is
\* gone, and no address is handed out twice.
Collect(h, dead) == [a \in DOMAIN h |-> IF a \in dead THEN <<>> ELSE h[a]]

\* A thread is started once its predecessor has made a call.
Started(t) == IF t = 1 THEN TRUE ELSE pc[t] # "idle" \/ pc[t - 1] # "idle"

\* Where a caller is when it can make a call.
AtCaller(t) == Started(t) /\ pc[t] \in {"idle", "done", "mutated", "raised"}

\* Enter process_data with argument `arg` (None or an address), the heap being h.
\* The caller's references to its previous argument and result are replaced.
Enter(t, arg, h, chain) ==
    /\ pc' = [pc EXCEPT ![t] = "test"]
    /\ raw_data' = [raw_data EXCEPT ![t] = arg]
    /\ cleaned_data' = [cleaned_data EXCEPT ![t] = None]
    /\ it' = [it EXCEPT ![t] = 0]
    /\ item' = [item EXCEPT ![t] = None]
    /\ result' = [result EXCEPT ![t] = None]
    /\ argval' = [argval EXCEPT ![t] = IF arg = None THEN <<>> ELSE h[arg]]
    /\ retval' = [retval EXCEPT ![t] = <<>>]
    /\ trace' = [trace EXCEPT ![t] = <<>>]
    /\ chained' = [chained EXCEPT ![t] = chain]
    /\ prevret' = [prevret EXCEPT ![t] = IF chain THEN retval[t] ELSE <<>>]
    /\ heap' = Collect(h, Dropped(t, arg))
    /\ UNCHANGED <<self, returned>>

\* A caller invokes process_data(None).
CallNone(t) ==
    /\ AtCaller(t)
    /\ Len(heap) + Cardinality(Unallocated) + 1 <= MaxObj
    /\ Enter(t, None, heap, FALSE)

\* A caller builds a list and invokes process_data on it.
CallNew(t) ==
    /\ AtCaller(t)
    /\ Len(heap) + Cardinality(Unallocated) + 2 <= MaxObj
    /\ \E l \in Lists : Enter(t, Len(heap) + 1, Append(heap, l), FALSE)

\* A caller invokes process_data on the list its previous call has just
\* returned: process_data(process_data(...)), a chained call.
CallResult(t) ==
    /\ AtCaller(t)
    /\ pc[t] = "done"
    /\ Len(heap) + Cardinality(Unallocated) + 1 <= MaxObj
    /\ Enter(t, result[t], heap, TRUE)

\* The call of thread t returns the object at address a; its frame is gone,
\* the caller keeps the argument and the result.
Leave(t, a, h) ==
    /\ pc' = [pc EXCEPT ![t] = "done"]
    /\ cleaned_data' = [cleaned_data EXCEPT ![t] = None]
    /\ it' = [it EXCEPT ![t] = 0]
    /\ item' = [item EXCEPT ![t] = None]
    /\ result' = [result EXCEPT ![t] = a]
    /\ retval' = [retval EXCEPT ![t] = IF a = None THEN <<>> ELSE h[a]]
    /\ returned' = [b \in DOMAIN returned \cup {a} |->
                        IF b = a
                        THEN (IF a \in DOMAIN returned THEN returned[a] ELSE 0) + 1
                        ELSE returned[b]]

\* Lines 16-20: if not raw_data: return [], and otherwise cleaned_data = [].
\* Either way the call makes its one new list here.
Test(t) ==
    /\ pc[t] = "test"
    /\ LET n == NewList(heap)
       IN /\ heap' = n.heap
          /\ IF IsFalsy(heap, raw_data[t])
             THEN Leave(t, n.addr, n.heap)
             ELSE /\ pc' = [pc EXCEPT ![t] = "for"]
                  /\ cleaned_data' = [cleaned_data EXCEPT ![t] = n.addr]
                  /\ UNCHANGED <<returned, result, retval, it, item>>
    /\ UNCHANGED <<self, raw_data, argval, trace, chained, prevret>>

\* The body of the loop for one item, lines 23-24:
\*     if self._validate_item(item):
\*         cleaned_data.append(self._clean_item(item))
\* from the receiver obj, the content out of cleaned_data and the events so
\* far; an exception of a helper leaves the call.
Body(obj, out, events, x) ==
    LET v == _validate_item(obj, x)
        ev == Append(events, Event("validate", x, v.ret))
        c == _clean_item(v.self, x)
    IN IF v.exc THEN [self |-> v.self, out |-> out, trace |-> ev, exc |-> TRUE]
       ELSE IF ~v.ret THEN [self |-> v.self, out |-> out, trace |-> ev, exc |-> FALSE]
       ELSE [self |-> c.self,
             out |-> IF c.exc THEN out ELSE ListAppend(out, c.ret),
             trace |-> Append(ev, Event("clean", x, TRUE)),
             exc |-> c.exc]

\* Lines 21-26 run to the end by one caller alone, from iterator index i with
\* out gathered so far: the value returned and the receiver afterwards.
RECURSIVE RunLoop(_, _, _, _, _)
RunLoop(obj, h, raw, i, out) ==
    LET n == ListIterNext(h, raw, i)
        b == Body(obj, out, <<>>, n.item)
    IN IF n.stop THEN Outcome(out, FALSE, obj)
       ELSE IF b.exc THEN Outcome(<<>>, TRUE, b.self)
       ELSE RunLoop(b.self, h, raw, n.it, b.out)

\* process_data, lines 10-26, as the function one uninterrupted call computes
\* on the receiver obj: raw is None or the address in h of the argument.
process_data(obj, h, raw) ==
    IF IsFalsy(h, raw) THEN Outcome(<<>>, FALSE, obj)
    ELSE RunLoop(obj, h, raw, 0, <<>>)

\* Lines 21-26, one turn of `for item in raw_data`.  The first turn makes the
\* list iterator (the trace is still empty).  A turn takes the iterator's next
\* item and runs the body on it; when there is none the loop is left and
\* line 26 returns cleaned_data.
ForIter(t) ==
    /\ pc[t] = "for"
    /\ LET made == IF trace[t] = <<>> THEN <<Event("iter", None, TRUE)>> ELSE trace[t]
           n == ListIterNext(heap, raw_data[t], it[t])
           b == Body(self, heap[cleaned_data[t]], Append(made, Event("next", n.item, TRUE)), n.item)
       IN IF n.stop
          THEN /\ trace' = [trace EXCEPT ![t] = made]
               /\ Leave(t, cleaned_data[t], heap)
               /\ UNCHANGED <<self, heap>>
          ELSE /\ pc' = [pc EXCEPT ![t] = IF b.exc THEN "raised" ELSE "for"]
               /\ it' = [it EXCEPT ![t] = n.it]
               /\ item' = [item EXCEPT ![t] = n.item]
               /\ trace' = [trace EXCEPT ![t] = b.trace]
               /\ self' = b.self
               /\ heap' = [heap EXCEPT ![cleaned_data[t]] = b.out]
               /\ UNCHANGED <<returned, result, cleaned_data, retval>>
    /\ UNCHANGED <<raw_data, argval, chained, prevret>>

\* The caller changes the list it was returned: one more item, or the first
\* one dropped when the list is full.
Mutate(t) ==
    /\ pc[t] = "done"
    /\ result[t] # None
    /\ heap' = [heap EXCEPT ![result[t]] =
                    IF Len(@) < MaxLen THEN Append(@, Malformed) ELSE Tail(@)]
    /\ pc' = [pc EXCEPT ![t] = "mutated"]
    /\ UNCHANGED <<self, returned, result, frame, observed>>

\* One step of process_data in thread t.
Step(t) ==
    \/ Test(t)
    \/ ForIter(t)

Next ==
    \E t \in Threads :
        \/ CallNone(t)
        \/ CallNew(t)
        \/ CallResult(t)
        \/ Step(t)
        \/ Mutate(t)

Spec == Init /\ [][Next]_vars

\* One caller alone, in the first thread.
SeqNext ==
    \/ CallNone(1)
    \/ CallNew(1)
    \/ CallResult(1)
    \/ Step(1)
    \/ Mutate(1)

\* A single thread is never kept from its next step.
SeqSpec == Init /\ [][SeqNext]_vars /\ WF_vars(Step(1))

\* --------------------------------------------------------------- claims

\* Threads whose call has returned and whose result the caller has not touched.
Finished == {t \in Threads : pc[t] = "done"}

\* Threads holding the result of a call.
Holding == {t \in Threads : pc[t] \in {"done", "mutated"}}

\* Threads holding an argument list.
WithList == {t \in Threads : pc[t] # "idle" /\ raw_data[t] # None}

RECURSIVE IsSubseq(_, _)
\* s can be had from l by deleting items, the rest keeping their order.
IsSubseq(s, l) ==
    IF s = <<>> THEN TRUE
    ELSE IF l = <<>> THEN FALSE
    ELSE IF Head(s) = Head(l) THEN IsSubseq(Tail(s), Tail(l))
    ELSE IsSubseq(s, Tail(l))

\* The items of the events of kind op in thread t's trace, in order.
ItemsOf(t, op) ==
    LET ev == SelectSeq(trace[t], LAMBDA e : e.op = op)
    IN [i \in 1..Len(ev) |-> ev[i].item]

\* The items _validate_item accepted in thread t's call, in order.
Accepted(t) ==
    LET ev == SelectSeq(trace[t], LAMBDA e : e.op = "validate" /\ e.ok)
    IN [i \in 1..Len(ev) |-> ev[i].item]

\* C1: a call on a non-empty list returns a list with the same items in the
\* same order and of the same length.
C1_NonEmptyPassThrough ==
    \A t \in Finished :
        argval[t] # <<>> =>
            /\ result[t] # None
            /\ heap[result[t]] = argval[t]
            /\ Len(heap[result[t]]) = Len(argval[t])

C1_Witness ==
    \E t \in Finished :
        /\ Len(argval[t]) = MaxLen
        /\ argval[t][1] # argval[t][MaxLen]
        /\ heap[result[t]] = argval[t]

\* C2: a call on None or on an empty list returns an empty list at once: no
\* iterator is made and neither helper is called.
C2_EmptyReturnsEmpty ==
    \A t \in Finished :
        (raw_data[t] = None \/ argval[t] = <<>>) =>
            /\ result[t] # None
            /\ heap[result[t]] = <<>>
            /\ trace[t] = <<>>

C2_Witness ==
    \E t, u \in Finished :
        /\ raw_data[t] = None
        /\ raw_data[u] # None
        /\ argval[u] = <<>>
        /\ heap[result[t]] = <<>>
        /\ heap[result[u]] = <<>>

\* C3: process_data applied to what process_data returned gives an equal list.
C3_Idempotent ==
    \A t \in Finished : chained[t] => heap[result[t]] = prevret[t]

C3_Witness ==
    \E t \in Finished :
        /\ chained[t]
        /\ Len(prevret[t]) = MaxLen
        /\ prevret[t][1] # prevret[t][MaxLen]
        /\ heap[result[t]] = prevret[t]

\* C4: the settings stay the empty mapping of the constructor, and the list
\* passed to a call has the content it had when the call began.
C4_NoSideEffects ==
    /\ self.settings = <<>>
    /\ self = DataProcessor
    /\ \A t \in WithList : heap[raw_data[t]] = argval[t]

C4_Witness ==
    /\ self.settings = <<>>
    /\ \A t \in Threads :
          /\ pc[t] = "done"
          /\ raw_data[t] # None
          /\ Len(argval[t]) = MaxLen
          /\ heap[raw_data[t]] = argval[t]

\* C5: no call ends in an error; every item, the malformed one too, is
\* reported valid and is in the output as it was in the input.
C5_NoError ==
    \A t \in Threads :
        /\ pc[t] # "raised"
        /\ \A i \in 1..Len(trace[t]) : trace[t][i].op = "validate" => trace[t][i].ok
        /\ pc[t] = "done" => /\ result[t] # None
                             /\ heap[result[t]] = argval[t]

C5_Witness ==
    \E t \in Finished :
        /\ Len(argval[t]) = MaxLen
        /\ argval[t][1] = Malformed
        /\ heap[result[t]][1] = Malformed
        /\ Accepted(t) = argval[t]

\* C6: every call returns a list object of its own: not its argument, not a
\* list any other call returned; so when a caller changes its result, the
\* argument of that call and the other callers' results stay as they were.
C6_FreshResult ==
    /\ \A a \in DOMAIN returned : returned[a] = 1
    /\ \A t \in Holding :
          /\ result[t] # None
          /\ result[t] # raw_data[t]
          /\ \A u \in Holding \ {t} : result[u] # result[t]
    /\ \A t \in Threads :
          pc[t] = "mutated" =>
              /\ raw_data[t] # None => heap[raw_data[t]] = argval[t]
              /\ \A u \in Finished : heap[result[u]] = retval[u]

C6_Witness ==
    \E t \in Threads, u \in Finished :
        /\ pc[t] = "mutated"
        /\ raw_data[t] # None
        /\ heap[result[t]] # retval[t]
        /\ heap[raw_data[t]] = argval[t]
        /\ argval[u] = <<>>
        /\ heap[result[u]] = <<>>

\* C7: with the calls of several threads interleaved, the settings are never
\* written, the list each call in flight is building is its own and holds
\* the items of its own argument taken so far, and each call returns a list
\* equal to its own argument.
C7_ConcurrentIsolation ==
    /\ self.settings = <<>>
    /\ \A t \in Threads :
          pc[t] = "for" =>
              /\ heap[cleaned_data[t]] = SubSeq(argval[t], 1, it[t])
              /\ \A u \in Threads \ {t} :
                    /\ cleaned_data[u] # cleaned_data[t]
                    /\ result[u] # cleaned_data[t]
                    /\ raw_data[u] # cleaned_data[t]
    /\ \A t \in Finished : heap[result[t]] = argval[t]

C7_Witness ==
    \E t \in Threads, u \in Finished :
        /\ pc[t] = "for"
        /\ it[t] = 1
        /\ Len(argval[t]) = MaxLen
        /\ Len(argval[u]) = MaxLen
        /\ argval[t][1] # argval[u][1]
        /\ cleaned_data[t] < result[u]
        /\ heap[result[u]] = argval[u]

\* C8: at every turn of the loop and at return the output is a subsequence of
\* the input, in the input's order, no longer than the items taken so far.
C8_StableFilter ==
    \A t \in Threads :
        /\ pc[t] = "for" =>
              /\ IsSubseq(heap[cleaned_data[t]], SubSeq(argval[t], 1, it[t]))
              /\ Len(heap[cleaned_data[t]]) <= it[t]
              /\ it[t] <= Len(argval[t])
        /\ pc[t] = "done" =>
              /\ IsSubseq(heap[result[t]], argval[t])
              /\ Len(heap[result[t]]) <= Len(argval[t])

C8_Witness ==
    \E t \in Threads :
        /\ pc[t] = "for"
        /\ it[t] = MaxLen
        /\ argval[t][1] # argval[t][MaxLen]
        /\ Len(heap[cleaned_data[t]]) = MaxLen

\* C9: whatever calls came before, a call returns what the same call returns
\* on a DataProcessor just constructed.
C9_NoStateAcrossCalls ==
    \A t \in Finished :
        LET fresh == process_data(DataProcessor, <<argval[t]>>,
                                  IF raw_data[t] = None THEN None ELSE 1)
        IN /\ ~fresh.exc
           /\ result[t] # None
           /\ heap[result[t]] = fresh.ret

C9_Witness ==
    \E t \in Finished :
        /\ Cardinality(DOMAIN returned) = MaxObj - 1
        /\ chained[t]
        /\ Len(argval[t]) = MaxLen
        /\ heap[result[t]] = argval[t]

\* Thread t's finished call took each item of its argument once, in order,
\* called _validate_item on each and _clean_item on each accepted one.
ExactTrace(t) ==
    /\ ItemsOf(t, "next") = argval[t]
    /\ ItemsOf(t, "validate") = argval[t]
    /\ ItemsOf(t, "clean") = Accepted(t)
    /\ Len(trace[t]) = IF argval[t] = <<>> THEN 0
                       ELSE 1 + 2 * Len(argval[t]) + Len(Accepted(t))

\* C10: every call returns, after one turn of the loop per item of its
\* argument, with _validate_item called once on each item in order and
\* _clean_item once on each item accepted.
C10_Terminates ==
    /\ [](\A t \in Finished : ExactTrace(t))
    /\ \A t \in Threads : (pc[t] = "test") ~> (pc[t] = "done")

C10_Witness ==
    \E t \in Finished :
        /\ Len(argval[t]) = MaxLen
        /\ Len(ItemsOf(t, "next")) = MaxLen
        /\ ItemsOf(t, "clean") = argval[t]

====
